---- MODULE Spec2Model ----
(***************************************************************************)
(* A model of semantic-sdp-js: the SDPInfo object graph (src/lib/SDPInfo.js)*)
(* with its parser SDPInfo.process, its serializer SDPInfo.toString, and    *)
(* answer / clone, together with ICEInfo (src/lib/ICEInfo.js) and           *)
(* StreamInfo (src/unnamed/part_001).                                       *)
(*                                                                         *)
(* Conventions.                                                            *)
(*  - A JavaScript string that the code parses (split, trim, parseInt) is  *)
(*    a sequence of one-character strings; <<>> is the empty string, and    *)
(*    also stands for an absent (undefined) string attribute: both are      *)
(*    falsy in the code's tests.                                            *)
(*  - A JavaScript Map is a sequence of [key, val] records in insertion    *)
(*    order.                                                                *)
(*  - An optional object (null / undefined or an object) is <<>> or <<o>>. *)
(*  - The generic attribute tree of sdp-transform is the record `sdp`.      *)
(*  - Header extensions, RIDs and simulcast are not part of the state: no   *)
(*    property checked here reads them.                                     *)
(***************************************************************************)
EXTENDS Integers, Sequences, FiniteSets, TLC

VARIABLES sdp, i, sdpInfo, sources, pc, params, out

vars == <<sdp, i, sdpInfo, sources, pc, params, out>>

(***************************************************************************)
(* Bounds of the model.                                                    *)
(***************************************************************************)
MaxMedia == 2

MaxSsrcAttrs == 2

MaxRtp == 3

MaxMedias == 2

MaxCandidates == 1

(***************************************************************************)
(* JavaScript values.                                                      *)
(***************************************************************************)
\* parseInt's NaN.
NaN == -1

\* undefined, where a one-word string attribute is absent.
Undefined == "undefined"

(***************************************************************************)
(* String helpers: String.prototype.split / trim / toLowerCase /           *)
(* toUpperCase and parseInt, computed on character sequences.               *)
(***************************************************************************)
RECURSIVE SplitFrom(_, _, _, _)
SplitFrom(s, sep, k, cur) ==
    IF k > Len(s) THEN <<cur>>
    ELSE IF s[k] = sep THEN <<cur>> \o SplitFrom(s, sep, k + 1, <<>>)
    ELSE SplitFrom(s, sep, k + 1, Append(cur, s[k]))

\* s.split(sep): the pieces of s between the separators, in order.
Split(s, sep) == SplitFrom(s, sep, 1, <<>>)

RECURSIVE TrimLeft(_)
TrimLeft(s) == IF s # <<>> /\ Head(s) = " " THEN TrimLeft(Tail(s)) ELSE s

RECURSIVE TrimRight(_)
TrimRight(s) ==
    IF s # <<>> /\ s[Len(s)] = " " THEN TrimRight(SubSeq(s, 1, Len(s) - 1)) ELSE s

\* s.trim()
Trim(s) == TrimRight(TrimLeft(s))

Digits == {"0", "1", "2", "3", "4", "5", "6", "7", "8", "9"}

DigitValue(c) ==
    CASE c = "0" -> 0 [] c = "1" -> 1 [] c = "2" -> 2 [] c = "3" -> 3
      [] c = "4" -> 4 [] c = "5" -> 5 [] c = "6" -> 6 [] c = "7" -> 7
      [] c = "8" -> 8 [] c = "9" -> 9

RECURSIVE ParseDigits(_, _, _)
ParseDigits(s, k, acc) ==
    IF k > Len(s) \/ s[k] \notin Digits THEN acc
    ELSE ParseDigits(s, k + 1, acc * 10 + DigitValue(s[k]))

\* parseInt(s): leading blanks skipped, then the longest prefix of digits;
\* NaN when there is no digit (also for undefined, written <<>>).
ParseInt(s) ==
    LET t == TrimLeft(s)
    IN  IF t = <<>> \/ Head(t) \notin Digits THEN NaN ELSE ParseDigits(t, 1, 0)

RECURSIVE JoinFrom(_, _, _)
JoinFrom(list, sep, k) ==
    IF k > Len(list) THEN <<>>
    ELSE IF k = Len(list) THEN list[k]
    ELSE list[k] \o sep \o JoinFrom(list, sep, k + 1)

\* list.join(sep) for a list of strings.
Join(list, sep) == JoinFrom(list, sep, 1)

RECURSIVE NumToStr(_)
NumToStr(n) ==
    LET d == <<"0", "1", "2", "3", "4", "5", "6", "7", "8", "9">>[(n % 10) + 1]
    IN  IF n < 10 THEN <<d>> ELSE Append(NumToStr(n \div 10), d)

\* s.toUpperCase() on the one-word strings of the model.
ToUpperCase(s) ==
    CASE s = "red" -> "RED" [] s = "Red" -> "RED"
      [] s = "ulpfec" -> "ULPFEC" [] s = "UlpFec" -> "ULPFEC"
      [] s = "rtx" -> "RTX" [] s = "Rtx" -> "RTX"
      [] s = "vp8" -> "VP8" [] s = "opus" -> "OPUS"
      [] s = "flex-fec" -> "FLEX-FEC"
      [] OTHER -> s

\* s.toLowerCase() on the one-word strings of the model.
ToLowerCase(s) ==
    CASE s = "Audio" -> "audio" [] s = "AUDIO" -> "audio"
      [] s = "Video" -> "video" [] s = "VIDEO" -> "video"
      [] s = "CNAME" -> "cname" [] s = "MSID" -> "msid" [] s = "Msid" -> "msid"
      [] s = "VP8" -> "vp8" [] s = "OPUS" -> "opus" [] s = "Opus" -> "opus"
      [] s = "FLEX-FEC" -> "flex-fec" [] s = "Flex-Fec" -> "flex-fec"
      [] OTHER -> s

(***************************************************************************)
(* JavaScript Map: insertion-ordered [key, val] records.                    *)
(***************************************************************************)
MapHas(m, k) == \E j \in 1..Len(m) : m[j].key = k

MapIndex(m, k) == CHOOSE j \in 1..Len(m) : m[j].key = k

\* m.get(k), for a key the map has.
MapGet(m, k) == m[MapIndex(m, k)].val

\* m.set(k, v): replaces in place, or appends a new entry.
MapSet(m, k, v) ==
    IF MapHas(m, k) THEN [m EXCEPT ![MapIndex(m, k)].val = v]
    ELSE Append(m, [key |-> k, val |-> v])

RECURSIVE MapDelete(_, _)
MapDelete(m, k) ==
    IF m = <<>> THEN <<>>
    ELSE IF Head(m).key = k THEN Tail(m)
    ELSE <<Head(m)>> \o MapDelete(Tail(m), k)

MapKeys(m) == {m[j].key : j \in 1..Len(m)}

MapValues(m) == [j \in 1..Len(m) |-> m[j].val]

(***************************************************************************)
(* ICEInfo (src/lib/ICEInfo.js).                                           *)
(***************************************************************************)
\* new ICEInfo(ufrag, pwd)
NewICEInfo(ufrag, pwd) == [ufrag |-> ufrag, pwd |-> pwd, lite |-> FALSE]

\* The methods an ICEInfo object has: calling any other name on it is a
\* TypeError (undefined is not a function).
ICEInfoMethods == {"getUfrag", "getPwd", "getLite", "setLite"}

(***************************************************************************)
(* Value classes of the repository whose files are not among the sources:  *)
(* DTLSInfo, CodecInfo, MediaInfo, TrackInfo, SourceInfo, SourceGroupInfo.  *)
(***************************************************************************)
\* new DTLSInfo(setup, hash, fingerprint)
NewDTLSInfo(setup, hash, fingerprint) ==
    [setup |-> setup, hash |-> hash, fingerprint |-> fingerprint]

\* The methods of a DTLSInfo value record.
DTLSInfoMethods == {"getSetup", "getHash", "getFingerprint", "clone", "plain"}

\* Setup.byValue / Direction.byValue: the enum member of an attribute word.
SetupByValue(s) == ToUpperCase(s)

\* new CodecInfo(codec, type, params); rtx is <<>> until setRTX.
NewCodecInfo(codec, type, codecParams) ==
    [codec |-> codec, type |-> type, params |-> codecParams, rtx |-> <<>>]

\* codec.setRTX(rtx)
SetRTX(codec, rtx) == [codec EXCEPT !.rtx = <<rtx>>]

\* codec.hasRTX()
HasRTX(codec) == codec.rtx # <<>>

\* new MediaInfo(id, type)
NewMediaInfo(id, type) ==
    [id |-> id, type |-> type, direction |-> "SENDRECV", codecs |-> <<>>]

\* media.addCodec(codec): the codec map is keyed by payload type.
AddCodec(media, codec) ==
    [media EXCEPT !.codecs = MapSet(media.codecs, codec.type, codec)]

\* media.getCodecForType(type) finds a codec.
HasCodecForType(media, type) == MapHas(media.codecs, type)

\* new TrackInfo(media, id)
NewTrackInfo(media, id) ==
    [media |-> media, id |-> id, mediaId |-> <<>>, ssrcs |-> <<>>, groups |-> <<>>]

\* track.addSSRC(ssrc)
AddSSRC(track, ssrc) == [track EXCEPT !.ssrcs = Append(track.ssrcs, ssrc)]

\* track.setMediaId(mid)
SetMediaId(track, mid) == [track EXCEPT !.mediaId = mid]

\* track.addSourceGroup(group)
AddSourceGroup(track, group) == [track EXCEPT !.groups = Append(track.groups, group)]

\* new SourceInfo(ssrc): the parse-time scratch record of one ssrc.
NewSourceInfo(ssrc) ==
    [ssrc |-> ssrc, cname |-> <<>>, streamId |-> <<>>, trackId |-> <<>>]

\* new SourceGroupInfo(semantics, ssrcs): the ssrcs are kept as numbers.
NewSourceGroupInfo(semantics, ssrcs) ==
    [semantics |-> semantics, ssrcs |-> [k \in 1..Len(ssrcs) |-> ParseInt(ssrcs[k])]]

(***************************************************************************)
(* StreamInfo (src/unnamed/part_001).                                      *)
(***************************************************************************)
\* The methods a StreamInfo object has.
StreamInfoMethods ==
    {"getId", "addTrack", "getFirstTrack", "getTracks", "removeAllTracks", "getTrack"}

\* new StreamInfo(id)
NewStreamInfo(id) == [id |-> id, tracks |-> <<>>]

\* stream.addTrack(track)
AddTrack(stream, track) ==
    [stream EXCEPT !.tracks = MapSet(stream.tracks, track.id, track)]

\* stream.getTrack(trackId) finds a track.
HasTrack(stream, trackId) == MapHas(stream.tracks, trackId)

\* stream.getTrack(trackId), for a track the stream has.
GetTrack(stream, trackId) == MapGet(stream.tracks, trackId)

\* stream.removeAllTracks()
RemoveAllTracks(stream) == [stream EXCEPT !.tracks = <<>>]

(***************************************************************************)
(* SDPInfo: constructor, setters and adders (src/lib/SDPInfo.js).           *)
(***************************************************************************)
\* new SDPInfo(version): version || 1.
NewSDPInfo(version) ==
    [version |-> IF version = 0 THEN 1 ELSE version,
     streams |-> <<>>, medias |-> <<>>, candidates |-> <<>>,
     ice |-> <<>>, dtls |-> <<>>]

SetVersion(info, version) == [info EXCEPT !.version = version]

AddMedia(info, media) == [info EXCEPT !.medias = Append(info.medias, media)]

SetDTLS(info, dtlsInfo) == [info EXCEPT !.dtls = dtlsInfo]

SetICE(info, iceInfo) == [info EXCEPT !.ice = iceInfo]

AddCandidate(info, candidate) ==
    [info EXCEPT !.candidates = Append(info.candidates, candidate)]

RECURSIVE AddCandidates(_, _)
AddCandidates(info, candidates) ==
    IF candidates = <<>> THEN info
    ELSE AddCandidates(AddCandidate(info, Head(candidates)), Tail(candidates))

\* info.getStream(id) finds a stream.
HasStream(streams, id) == MapHas(streams, id)

\* info.getStream(id), for a stream the session has.
GetStream(streams, id) == MapGet(streams, id)

\* info.addStream(stream), on the stream map.
AddStream(streams, stream) == MapSet(streams, stream.id, stream)

\* info.removeStream(stream), on the stream map.
RemoveStream(streams, stream) == MapDelete(streams, stream.id)

\* The track object of stream streamId / track trackId replaced by track:
\* the effect of mutating a TrackInfo that the stream map holds by reference.
PutTrack(streams, streamId, track) ==
    MapSet(streams, streamId, AddTrack(GetStream(streams, streamId), track))

(***************************************************************************)
(* The getters of SDPInfo and StreamInfo. What a getter returns is a       *)
(* record [kind, value]: null, undefined, one object or an array.          *)
(***************************************************************************)
JsNull == [kind |-> "null", value |-> <<>>]

JsUndefined == [kind |-> "undefined", value |-> <<>>]

JsObject(o) == [kind |-> "object", value |-> <<o>>]

JsArray(a) == [kind |-> "array", value |-> a]

\* this.<name>: the value of a property of an object, undefined when the
\* object has no property of that name.
This(object, name) ==
    IF name \in DOMAIN object THEN JsObject(object[name]) ELSE JsUndefined

\* c.toLowerCase() on one character of an id.
LowerChar(c) ==
    CASE c = "A" -> "a" [] c = "B" -> "b" [] c = "C" -> "c" [] c = "D" -> "d"
      [] c = "E" -> "e" [] c = "S" -> "s" [] c = "T" -> "t" [] c = "U" -> "u"
      [] OTHER -> c

\* id.toLowerCase() on an id kept as a sequence of characters.
IdToLowerCase(id) == [k \in 1..Len(id) |-> LowerChar(id[k])]

\* Lines 156-165: the loop finds a media by its id and then returns the
\* property `media` of the SDPInfo itself.
GetMediaById(info, msid) ==
    IF \E k \in 1..Len(info.medias) :
           IdToLowerCase(info.medias[k].id) = IdToLowerCase(msid)
    THEN This(info, "media")
    ELSE JsNull

RECURSIVE GetMediasOfType(_, _, _)
\* Lines 139-149: getMedias(type), the first of the two definitions of the
\* name getMedias in the class body.
GetMediasOfType(info, type, k) ==
    IF k > Len(info.medias) THEN <<>>
    ELSE (IF ToLowerCase(info.medias[k].type) = ToLowerCase(type)
          THEN <<info.medias[k]>> ELSE <<>>)
         \o GetMediasOfType(info, type, k + 1)

\* Lines 171-174: getMedias(), the second definition of the name.
GetMedias(info) == info.medias

\* The definitions of the name getMedias in the class body, in source order
\* (lines 139 and 171).
GetMediasDefinitions == <<"getMedias(type)", "getMedias()">>

\* info.getMedias(type): of two methods of one name in a class body the
\* later one is the method of the class; a call's arguments do not select.
CallGetMedias(info, type) ==
    IF GetMediasDefinitions[Len(GetMediasDefinitions)] = "getMedias(type)"
    THEN JsArray(GetMediasOfType(info, type, 1))
    ELSE JsArray(GetMedias(info))

RECURSIVE FirstTrackFrom(_, _, _)
\* Lines 40-44 of StreamInfo: is there a track of the media type.
FirstTrackFrom(tracks, media, k) ==
    IF k > Len(tracks) THEN 0
    ELSE IF ToLowerCase(tracks[k].val.media) = ToLowerCase(media) THEN k
    ELSE FirstTrackFrom(tracks, media, k + 1)

\* Lines 39-46 of StreamInfo: returns the property `track` of the stream
\* when a track matches and its property `null` otherwise.
GetFirstTrack(stream, media) ==
    IF FirstTrackFrom(stream.tracks, media, 1) # 0
    THEN This(stream, "track")
    ELSE This(stream, "null")

(***************************************************************************)
(* SDPInfo.process (src/lib/SDPInfo.js, 727-1133): the body of the loop    *)
(* over the media descriptions, one operator per pass.                      *)
(***************************************************************************)
\* The piece number n (from 1) of a split, "" when the split has fewer.
Piece(pieces, n) == IF Len(pieces) >= n THEN pieces[n] ELSE <<>>

RECURSIVE ParseConfig(_, _, _)
\* Lines 820-828: every piece of config.split(";") is split at "=" and
\* params[key.trim()] = (value || "").trim().
ParseConfig(codecParams, list, k) ==
    IF k > Len(list) THEN codecParams
    ELSE LET param == Split(list[k], "=")
         IN  ParseConfig(MapSet(codecParams, Trim(param[1]), Trim(Piece(param, 2))),
                         list, k + 1)

RECURSIVE FmtpParams(_, _, _, _)
\* Lines 808-830: the parameters of payload `type`, from every fmtp entry
\* of that payload, in order.
FmtpParams(codecParams, fmtp, type, k) ==
    IF k > Len(fmtp) THEN codecParams
    ELSE IF fmtp[k].payload = type
         THEN FmtpParams(ParseConfig(codecParams, Split(fmtp[k].config, ";"), 1),
                         fmtp, type, k + 1)
         ELSE FmtpParams(codecParams, fmtp, type, k + 1)

\* params.apt, undefined (<<>>) when there is no such parameter.
AptOf(codecParams) ==
    IF MapHas(codecParams, <<"a", "p", "t">>)
    THEN MapGet(codecParams, <<"a", "p", "t">>) ELSE <<>>

\* Line 803 with the codec name compared as written, not in upper case.
IsRedOrUlpfecExact(codec) == "RED" = codec \/ "ULPFEC" = codec

\* Line 803: the rtp entries that produce neither a codec nor an RTX note.
IsRedOrUlpfec(codec) == "RED" = ToUpperCase(codec) \/ "ULPFEC" = ToUpperCase(codec)

\* Line 832
IsRtx(codec) == "RTX" = ToUpperCase(codec)

\* Lines 796-837: one rtp entry. st = [media, apts].
RtpEntry(st, fmt, fmtp) ==
    IF IsRedOrUlpfec(fmt.codec) THEN st
    ELSE LET codecParams == FmtpParams(<<>>, fmtp, fmt.payload, 1)
         IN  IF IsRtx(fmt.codec)
             THEN [st EXCEPT !.apts = MapSet(@, ParseInt(AptOf(codecParams)), fmt.payload)]
             ELSE [st EXCEPT !.media =
                      AddCodec(@, NewCodecInfo(fmt.codec, fmt.payload, codecParams))]

RECURSIVE RtpPass(_, _, _, _)
\* Lines 793-838
RtpPass(st, rtp, fmtp, k) ==
    IF k > Len(rtp) THEN st
    ELSE RtpPass(RtpEntry(st, rtp[k], fmtp), rtp, fmtp, k + 1)

RECURSIVE RtxPassAptField(_, _, _)
\* Lines 841-849 with the apt, not the RTX payload type, given to setRTX.
RtxPassAptField(media, apts, k) ==
    IF k > Len(apts) THEN media
    ELSE IF HasCodecForType(media, apts[k].key)
         THEN RtxPassAptField([media EXCEPT !.codecs =
                                  MapSet(@, apts[k].key,
                                         SetRTX(MapGet(media.codecs, apts[k].key),
                                                apts[k].key))],
                              apts, k + 1)
         ELSE RtxPassAptField(media, apts, k + 1)

RECURSIVE RtxPass(_, _, _)
\* Lines 841-849: every noted apt sets the RTX payload of the codec found
\* under that payload type, when there is one.
RtxPass(media, apts, k) ==
    IF k > Len(apts) THEN media
    ELSE IF HasCodecForType(media, apts[k].key)
         THEN RtxPass([media EXCEPT !.codecs =
                          MapSet(@, apts[k].key,
                                 SetRTX(MapGet(media.codecs, apts[k].key), apts[k].val))],
                      apts, k + 1)
         ELSE RtxPass(media, apts, k + 1)

\* Lines 1029-1049 without the test of line 1041: the track is created anew
\* at every msid record.
EnsureTrackAnew(streams, streamId, trackId, fresh) ==
    LET s1 == IF HasStream(streams, streamId) THEN streams
              ELSE AddStream(streams, NewStreamInfo(streamId))
    IN  PutTrack(s1, streamId, fresh)

\* Lines 1029-1049 and 1066-1088: the streams with stream streamId and its
\* track trackId looked up or created; a created track is `fresh`.
EnsureTrack(streams, streamId, trackId, fresh) ==
    LET s1 == IF HasStream(streams, streamId) THEN streams
              ELSE AddStream(streams, NewStreamInfo(streamId))
    IN  IF HasTrack(GetStream(s1, streamId), trackId) THEN s1
        ELSE PutTrack(s1, streamId, fresh)

\* Lines 999-1052: one ssrc attribute record. st = [streams, sources].
SsrcAttr(st, ssrcAttr, media) ==
    LET ssrc   == ssrcAttr.id
        key    == ssrcAttr.attribute
        value  == ssrcAttr.value
        srcs   == IF MapHas(st.sources, ssrc) THEN st.sources
                  ELSE MapSet(st.sources, ssrc, NewSourceInfo(ssrc))
        source == MapGet(srcs, ssrc)
    IN  IF "cname" = ToLowerCase(key)
        THEN [st EXCEPT !.sources = MapSet(srcs, ssrc, [source EXCEPT !.cname = value])]
        ELSE IF "msid" = ToLowerCase(key)
        THEN LET ids      == Split(value, " ")
                 streamId == Piece(ids, 1)
                 trackId  == Piece(ids, 2)
                 strs     == EnsureTrack(st.streams, streamId, trackId,
                                         NewTrackInfo(media, trackId))
                 track    == GetTrack(GetStream(strs, streamId), trackId)
             IN  [streams |-> PutTrack(strs, streamId, AddSSRC(track, ssrc)),
                  sources |-> MapSet(srcs, ssrc,
                                     [source EXCEPT !.streamId = streamId,
                                                    !.trackId = trackId])]
        ELSE [st EXCEPT !.sources = srcs]

RECURSIVE SsrcPass(_, _, _, _)
\* Lines 993-1054
SsrcPass(st, ssrcs, media, k) ==
    IF k > Len(ssrcs) THEN st
    ELSE SsrcPass(SsrcAttr(st, ssrcs[k], media), ssrcs, media, k + 1)

RECURSIVE ClaimSources(_, _, _, _)
\* Lines 1091-1102: every source without a stream id is given the ids of
\* the media-level msid and its ssrc is added to that track.
ClaimSources(st, streamId, trackId, k) ==
    IF k > Len(st.sources) THEN st
    ELSE LET source == st.sources[k].val
             track  == GetTrack(GetStream(st.streams, streamId), trackId)
         IN  IF source.streamId = <<>>
             THEN ClaimSources(
                      [streams |-> PutTrack(st.streams, streamId,
                                            AddSSRC(track, st.sources[k].key)),
                       sources |-> [st.sources EXCEPT ![k].val =
                                       [source EXCEPT !.streamId = streamId,
                                                      !.trackId = trackId]]],
                      streamId, trackId, k + 1)
             ELSE ClaimSources(st, streamId, trackId, k + 1)

\* Lines 1057-1103: the media-level msid.
MsidPass(st, msid, media, mid) ==
    IF msid = <<>> THEN st
    ELSE LET ids      == Split(msid, " ")
             streamId == Piece(ids, 1)
             trackId  == Piece(ids, 2)
             strs     == EnsureTrack(st.streams, streamId, trackId,
                                     SetMediaId(NewTrackInfo(media, trackId), mid))
         IN  ClaimSources([st EXCEPT !.streams = strs], streamId, trackId, 1)

\* Lines 1121-1126 find the source of the first listed ssrc, its stream and
\* its track: a miss at any of the three is a TypeError.
GroupResolves(st, ssrcs) ==
    /\ MapHas(st.sources, ParseInt(ssrcs[1]))
    /\ LET source == MapGet(st.sources, ParseInt(ssrcs[1]))
       IN  /\ HasStream(st.streams, source.streamId)
           /\ HasTrack(GetStream(st.streams, source.streamId), source.trackId)

\* Lines 1112-1126 with only the first listed ssrc kept in the group.
SsrcGroupFirstOnly(st, ssrcGroupAttr) ==
    LET ssrcs  == Split(ssrcGroupAttr.ssrcs, " ")
        group  == NewSourceGroupInfo(ssrcGroupAttr.semantics, <<ssrcs[1]>>)
        source == MapGet(st.sources, ParseInt(ssrcs[1]))
        track  == GetTrack(GetStream(st.streams, source.streamId), source.trackId)
    IN  [st EXCEPT !.streams = PutTrack(@, source.streamId, AddSourceGroup(track, group))]

\* Lines 1112-1126: one ssrc-group record whose owner resolves.
SsrcGroup(st, ssrcGroupAttr) ==
    LET ssrcs  == Split(ssrcGroupAttr.ssrcs, " ")
        group  == NewSourceGroupInfo(ssrcGroupAttr.semantics, ssrcs)
        source == MapGet(st.sources, ParseInt(ssrcs[1]))
        track  == GetTrack(GetStream(st.streams, source.streamId), source.trackId)
    IN  [st EXCEPT !.streams = PutTrack(@, source.streamId, AddSourceGroup(track, group))]

RECURSIVE GroupPass(_, _, _)
\* Lines 1106-1128; the result carries thrown = TRUE when a record raised.
GroupPass(st, ssrcGroups, k) ==
    IF k > Len(ssrcGroups) THEN [st |-> st, thrown |-> FALSE]
    ELSE IF ~GroupResolves(st, Split(ssrcGroups[k].ssrcs, " "))
    THEN [st |-> st, thrown |-> TRUE]
    ELSE GroupPass(SsrcGroup(st, ssrcGroups[k]), ssrcGroups, k + 1)

\* Line 761: md.fingerprint || sdp.fingerprint
FingerprintAttr(tree, md) == IF md.fingerprint # <<>> THEN md.fingerprint ELSE tree.fingerprint

\* Lines 764-765 read .type and .hash of the attribute: a TypeError when
\* neither the media line nor the session has one.
FingerprintThrows(tree, md) == FingerprintAttr(tree, md) = <<>>

\* Lines 768-776
DtlsOf(tree, md) ==
    LET fingerprintAttr == FingerprintAttr(tree, md)[1]
        setup == IF md.setup # Undefined THEN SetupByValue(md.setup) ELSE "ACTPASS"
    IN  NewDTLSInfo(setup, fingerprintAttr.type, fingerprintAttr.hash)

\* Lines 751 and 779-849: the MediaInfo of the media line.
MediaOf(md) ==
    LET st == RtpPass([media |-> NewMediaInfo(md.mid, md.type), apts |-> <<>>],
                      md.rtp, md.fmtp, 1)
    IN  RtxPass(st.media, st.apts, 1)

\* Lines 989-1103: streams and scratch sources after the two msid passes.
SourcesOf(info, md) ==
    MsidPass(SsrcPass([streams |-> info.streams, sources |-> <<>>], md.ssrcs, md.type, 1),
             md.msid, md.type, md.mid)

\* Lines 739-1131 for one media description that raises nothing.
ProcessMediaLine(info, tree, md) ==
    LET withIce  == SetICE(info, <<NewICEInfo(md.iceUfrag, md.icePwd)>>)
        withDtls == SetDTLS(withIce, <<DtlsOf(tree, md)>>)
        grouped  == GroupPass(SourcesOf(info, md), md.ssrcGroups, 1)
    IN  [info    |-> AddMedia([withDtls EXCEPT !.streams = grouped.st.streams], MediaOf(md)),
         sources |-> grouped.st.sources]

\* The media description makes process raise (lines 764 or 1124-1126).
MediaLineThrows(info, tree, md) ==
    \/ FingerprintThrows(tree, md)
    \/ GroupPass(SourcesOf(info, md), md.ssrcGroups, 1).thrown

(***************************************************************************)
(* The inputs of process: attribute trees as sdp-transform's parse gives    *)
(* them, drawn from bounded sets.                                           *)
(***************************************************************************)
SeqsUpTo(S, n) == UNION {[1..k -> S] : k \in 0..n}

\* The letter-case variants of the msid attribute name.
MsidNames == {"msid", "Msid", "MSID"}

Range(f) == {f[k] : k \in DOMAIN f}

\* The <<stream id, track id>> pairs that media description md names, in its
\* per-ssrc msid records and its media-level msid.
Named(md) ==
    {<<Piece(Split(md.ssrcs[k].value, " "), 1), Piece(Split(md.ssrcs[k].value, " "), 2)>> :
        k \in {x \in 1..Len(md.ssrcs) : md.ssrcs[x].attribute \in MsidNames}}
    \cup (IF md.msid = <<>> THEN {}
          ELSE {<<Piece(Split(md.msid, " "), 1), Piece(Split(md.msid, " "), 2)>>})

Fingerprint == [type |-> "sha-256", hash |-> "F2:AA"]

\* A media description with transport attributes and nothing else.
BaseLine ==
    [type |-> "audio", mid |-> <<"0">>, iceUfrag |-> "uf", icePwd |-> "pw",
     fingerprint |-> <<Fingerprint>>, setup |-> Undefined,
     rtp |-> <<>>, fmtp |-> <<>>, ssrcs |-> <<>>, msid |-> <<>>, ssrcGroups |-> <<>>]

\* The mid of the k-th media description.
MidOf(k) == NumToStr(k - 1)

\* The media descriptions given their mids by position.
WithMids(lines) == [k \in 1..Len(lines) |-> [lines[k] EXCEPT !.mid = MidOf(k)]]

Tree(fingerprint, lines) ==
    [version |-> 0, fingerprint |-> fingerprint, media |-> WithMids(lines)]

\* Media descriptions that differ in the transport attributes they carry.
TransportLines ==
    {[BaseLine EXCEPT !.fingerprint = f, !.iceUfrag = u, !.icePwd = w, !.setup = a] :
        f \in {<<>>, <<Fingerprint>>}, u \in {Undefined, "uf"},
        w \in {Undefined, "pw"}, a \in {Undefined, "active"}}

TransportInputs ==
    {Tree(f, lines) : f \in {<<>>, <<Fingerprint>>},
                      lines \in UNION {[1..k -> TransportLines] : k \in 1..MaxMedia}}

\* rtp entries: codec names in several letter cases, three payload types.
RtpEntries ==
    {[payload |-> p, codec |-> c] : p \in {96, 97, 98},
                                    c \in {"VP8", "rtx", "Red", "ULPFEC"}}

Apt96 == <<"a", "p", "t", "=", "9", "6">>

FmtpLists ==
    {<<>>,
     <<[payload |-> 97, config |-> Apt96]>>,
     <<[payload |-> 97, config |-> Apt96],
       [payload |-> 98, config |-> <<"a", "p", "t", "=", "9", "7">>]>>,
     <<[payload |-> 96, config |-> <<"x", "=", "1", ";", " ", "a", "p", "t", "=", "9", "7", " ">>],
       [payload |-> 98, config |-> <<"a", "p", "t">>]>>}

\* The payload types of a media line are distinct (the formats of its m= line).
DistinctPayloads(rtp) ==
    \A a, b \in 1..Len(rtp) : a # b => rtp[a].payload # rtp[b].payload

CodecLines ==
    {[BaseLine EXCEPT !.type = "video", !.rtp = r, !.fmtp = f] :
        r \in {x \in SeqsUpTo(RtpEntries, MaxRtp) : DistinctPayloads(x)}, f \in FmtpLists}

CodecInputs == {Tree(<<>>, <<md>>) : md \in CodecLines}

MsidST == <<"s", " ", "t">>

MsidSU == <<"s", " ", "u">>

MsidRT == <<"r", " ", "t">>

\* ssrc attribute records: cname and msid of ssrcs 1 and 2.
SsrcRecords ==
    {[id |-> n, attribute |-> "cname", value |-> <<"c">>] : n \in {1, 2}}
    \cup {[id |-> n, attribute |-> "msid", value |-> v] : n \in {1, 2}, v \in {MsidST, MsidSU}}

Group(semantics, ssrcs) == [semantics |-> semantics, ssrcs |-> ssrcs]

GroupLists ==
    {<<>>,
     <<Group("FID", <<"1", " ", "2">>)>>,
     <<Group("FID", <<"2", " ", "1">>)>>,
     <<Group("FID", <<"1", " ", "3">>)>>,
     <<Group("SIM", <<"1", " ", "2">>), Group("FID", <<"2", " ", "1">>)>>}

SourceLines ==
    {[BaseLine EXCEPT !.type = t, !.ssrcs = a, !.msid = m, !.ssrcGroups = g] :
        t \in {"audio", "video"}, a \in SeqsUpTo(SsrcRecords, MaxSsrcAttrs),
        m \in {<<>>, MsidST, MsidRT}, g \in GroupLists}

\* The media descriptions that follow the first one: they reuse the ssrcs
\* and the stream and track ids of the first.
LaterLines ==
    {[BaseLine EXCEPT !.type = "video",
                      !.ssrcs = <<[id |-> 1, attribute |-> "MSID", value |-> MsidST]>>],
     [BaseLine EXCEPT !.msid = MsidST,
                      !.ssrcs = <<[id |-> 2, attribute |-> "cname", value |-> <<"c">>]>>,
                      !.ssrcGroups = <<Group("FID", <<"2", " ", "1">>)>>],
     [BaseLine EXCEPT !.type = "video",
                      !.ssrcs = <<[id |-> 1, attribute |-> "cname", value |-> <<"c">>]>>,
                      !.ssrcGroups = <<Group("FID", <<"1", " ", "2">>)>>]}

\* A track is of one media type: media lines that name the same stream and
\* track are of the same type.
OneTypePerTrack(lines) ==
    \A a, b \in 1..Len(lines) :
        Named(lines[a]) \cap Named(lines[b]) # {} => lines[a].type = lines[b].type

SourceInputs ==
    {Tree(<<>>, lines) :
        lines \in {x \in {<<md>> \o rest : md \in SourceLines,
                                             rest \in SeqsUpTo(LaterLines, MaxMedia - 1)} :
                      OneTypePerTrack(x)}}

(***************************************************************************)
(* process as a state machine: pc = "loop" at the head of the loop over    *)
(* sdp.media with i the next index, "returned" after line 1132, "thrown"   *)
(* when a TypeError left the call.                                          *)
(***************************************************************************)
NoParams == [ice |-> <<>>, dtls |-> <<>>, candidates |-> <<>>, capabilities |-> <<>>]

NoOut == [op |-> "none", thrown |-> FALSE, info |-> NewSDPInfo(0), media |-> <<>>]

\* Lines 730-736: the state before the first media description.
ProcessInit(inputs) ==
    /\ sdp \in inputs
    /\ i = 1
    /\ sdpInfo = SetVersion(NewSDPInfo(0), sdp.version)
    /\ sources = <<>>
    /\ pc = "loop"
    /\ params = NoParams
    /\ out = NoOut

\* Lines 739-1131: one media description, appended at line 1130.
ProcessMedia ==
    /\ pc = "loop"
    /\ i <= Len(sdp.media)
    /\ ~MediaLineThrows(sdpInfo, sdp, sdp.media[i])
    /\ LET r == ProcessMediaLine(sdpInfo, sdp, sdp.media[i])
       IN  /\ sdpInfo' = r.info
           /\ sources' = r.sources
    /\ i' = i + 1
    /\ UNCHANGED <<sdp, pc, params, out>>

\* A TypeError inside the loop body ends the call: nothing is returned.
ProcessThrow ==
    /\ pc = "loop"
    /\ i <= Len(sdp.media)
    /\ MediaLineThrows(sdpInfo, sdp, sdp.media[i])
    /\ pc' = "thrown"
    /\ UNCHANGED <<sdp, i, sdpInfo, sources, params, out>>

\* Line 1132
ProcessReturn ==
    /\ pc = "loop"
    /\ i > Len(sdp.media)
    /\ pc' = "returned"
    /\ UNCHANGED <<sdp, i, sdpInfo, sources, params, out>>

ProcessNext == ProcessMedia \/ ProcessThrow \/ ProcessReturn

\* process on inputs that differ in their transport attributes.
TransportInit == ProcessInit(TransportInputs)

SpecTransport == TransportInit /\ [][ProcessNext]_vars

\* process on inputs that differ in their rtp and fmtp entries.
CodecInit == ProcessInit(CodecInputs \cup TransportInputs)

SpecCodecs == CodecInit /\ [][ProcessNext]_vars

\* process on inputs that differ in their ssrc, msid and ssrc-group records.
SourceInit == ProcessInit(SourceInputs \cup TransportInputs)

SpecSources == SourceInit /\ [][ProcessNext]_vars

(***************************************************************************)
(* Properties of process.                                                  *)
(***************************************************************************)
\* The media descriptions process has finished, by index.
Processed == 1..Len(sdpInfo.medias)

\* The letter-case variants of the codec names that process treats apart.
RedNames == {"red", "Red", "RED", "ulpfec", "UlpFec", "ULPFEC"}

RtxNames == {"rtx", "Rtx", "RTX"}

\* The rtp entry produces a codec.
Ordinary(fmt) == fmt.codec \notin RedNames \cup RtxNames

\* The fmtp of payload type r carries apt=p.
CarriesApt(md, r, p) == ParseInt(AptOf(FmtpParams(<<>>, md.fmtp, r, 1))) = p

\* Entry k is an RTX entry, entry j the entry of the codec it retransmits.
RtxPair(md, j, k) ==
    /\ Ordinary(md.rtp[j])
    /\ md.rtp[k].codec \in RtxNames
    /\ CarriesApt(md, md.rtp[k].payload, md.rtp[j].payload)

\* C2: for every media line with an rtp entry of payload type P for a codec
\* that is not RTX, RED or ULPFEC and an RTX entry of payload type R whose fmtp
\* carries apt=P, in either order, after process the codec with payload type
\* P has RTX payload type R and no codec with payload type R exists.
C2_RtxAssociation ==
    \A n \in Processed :
        LET md == sdp.media[n]
            codecs == sdpInfo.medias[n].codecs
        IN  \A j, k \in 1..Len(md.rtp) :
                RtxPair(md, j, k) =>
                    /\ MapHas(codecs, md.rtp[j].payload)
                    /\ MapGet(codecs, md.rtp[j].payload).rtx = <<md.rtp[k].payload>>
                    /\ ~MapHas(codecs, md.rtp[k].payload)

\* The RTX entry comes before the entry of its codec and is associated.
C2_Witness ==
    /\ pc = "returned"
    /\ \E n \in Processed :
          LET md == sdp.media[n]
          IN  \E j, k \in 1..Len(md.rtp) :
                  /\ k < j
                  /\ RtxPair(md, j, k)
                  /\ MapGet(sdpInfo.medias[n].codecs, md.rtp[j].payload).rtx
                        = <<md.rtp[k].payload>>
                  /\ ~MapHas(sdpInfo.medias[n].codecs, md.rtp[k].payload)

\* The last entry of payload type p that produces a codec.
LastOrdinary(md, p) ==
    CHOOSE j \in 1..Len(md.rtp) :
        /\ Ordinary(md.rtp[j]) /\ md.rtp[j].payload = p
        /\ \A l \in (j + 1)..Len(md.rtp) :
               ~(Ordinary(md.rtp[l]) /\ md.rtp[l].payload = p)

\* C6: after process no codec of a media line comes from an rtp entry named
\* red or ulpfec in any letter case, and every rtp entry that is neither of
\* them nor RTX has a codec under its payload type.
C6_RedUlpfecExclusion ==
    \A n \in Processed :
        LET md == sdp.media[n]
            codecs == sdpInfo.medias[n].codecs
        IN  /\ \A c \in 1..Len(codecs) :
                   /\ codecs[c].val.codec \notin RedNames
                   /\ \E j \in 1..Len(md.rtp) :
                          /\ Ordinary(md.rtp[j])
                          /\ md.rtp[j].payload = codecs[c].key
            /\ \A j \in 1..Len(md.rtp) :
                   Ordinary(md.rtp[j]) =>
                       /\ MapHas(codecs, md.rtp[j].payload)
                       /\ MapGet(codecs, md.rtp[j].payload).codec
                             = md.rtp[LastOrdinary(md, md.rtp[j].payload)].codec
                       /\ MapGet(codecs, md.rtp[j].payload).type = md.rtp[j].payload

\* A line with a Red entry, an ULPFEC entry and a VP8 entry was processed.
C6_Witness ==
    /\ pc = "returned"
    /\ \E n \in Processed :
          LET md == sdp.media[n]
          IN  /\ \E j \in 1..Len(md.rtp) : md.rtp[j].codec = "Red"
              /\ \E j \in 1..Len(md.rtp) : md.rtp[j].codec = "ULPFEC"
              /\ \E j \in 1..Len(md.rtp) : md.rtp[j].codec = "VP8"
              /\ Len(sdpInfo.medias[n].codecs) = 1

\* The <<stream id, track id>> pairs of the session.
TracksOf(info) ==
    UNION {{<<info.streams[x].key, info.streams[x].val.tracks[y].key>> :
               y \in 1..Len(info.streams[x].val.tracks)} : x \in 1..Len(info.streams)}

GroupsOf(streams, sid, tid) ==
    IF MapHas(streams, sid) /\ MapHas(MapGet(streams, sid).tracks, tid)
    THEN MapGet(MapGet(streams, sid).tracks, tid).groups
    ELSE <<>>

\* The first listed ssrc of an ssrc-group record.
FirstSsrc(g) == ParseInt(Piece(Split(g.ssrcs, " "), 1))

RECURSIVE RecordsFor(_, _, _, _, _)
\* The ssrc-group records, from the k-th on, whose first listed ssrc the
\* sources srcs assign to stream sid / track tid, each as the group it
\* describes: its semantics and its ssrcs as numbers in the listed order.
RecordsFor(groups, srcs, sid, tid, k) ==
    IF k > Len(groups) THEN <<>>
    ELSE LET g == groups[k]
             pieces == Split(g.ssrcs, " ")
             owner == MapGet(srcs, FirstSsrc(g))
             rest == RecordsFor(groups, srcs, sid, tid, k + 1)
         IN  IF owner.streamId = sid /\ owner.trackId = tid
             THEN <<[semantics |-> g.semantics,
                     ssrcs |-> [x \in 1..Len(pieces) |-> ParseInt(pieces[x])]]>> \o rest
             ELSE rest

\* C5: a media line's ssrc-group records whose first listed ssrc is assigned
\* to stream S / track T are appended, in order, to the source groups of
\* track T of stream S and of no other track, each with its semantics and its
\* full ssrc list in the listed order.
C5_GroupAttachment ==
    [][ProcessMedia =>
         \A st \in TracksOf(sdpInfo') :
             GroupsOf(sdpInfo'.streams, st[1], st[2])
               = GroupsOf(sdpInfo.streams, st[1], st[2])
                   \o RecordsFor(sdp.media[i].ssrcGroups, sources', st[1], st[2], 1)]_vars

\* Two groups were attached to one track, the other track of the line has none.
C5_Witness ==
    /\ pc = "returned"
    /\ Len(sdp.media[1].ssrcGroups) = 2
    /\ \E st \in TracksOf(sdpInfo) : Len(GroupsOf(sdpInfo.streams, st[1], st[2])) = 2
    /\ \E st \in TracksOf(sdpInfo) : Len(GroupsOf(sdpInfo.streams, st[1], st[2])) = 0

\* The ssrc was given a stream by one of the two msid passes of the line.
Assigned(srcs, ssrc) == MapHas(srcs, ssrc) /\ MapGet(srcs, ssrc).streamId # <<>>

\* C10 as written: process does not get past a media line with an ssrc-group
\* record any member of which, first or later, was not assigned to a stream
\* by the msid passes of that line; it throws instead.
C10_MalformedGroupThrows ==
    (pc \in {"loop", "returned"} /\ i > 1) =>
        \A k \in 1..Len(sdp.media[i - 1].ssrcGroups) :
            LET pieces == Split(sdp.media[i - 1].ssrcGroups[k].ssrcs, " ")
            IN  \A x \in 1..Len(pieces) : Assigned(sources, ParseInt(pieces[x]))

\* C9 as written: process returns no SDPInfo for an input with a media line
\* that lacks a DTLS fingerprint (at media and at session level) or lacks
\* ICE credentials, and never one whose ICE or DTLS has undefined fields.
C9_MissingAttributesThrow ==
    pc = "returned" =>
        /\ \A n \in 1..Len(sdp.media) :
               /\ sdp.media[n].fingerprint # <<>> \/ sdp.fingerprint # <<>>
               /\ sdp.media[n].iceUfrag # Undefined
               /\ sdp.media[n].icePwd # Undefined
        /\ \A n \in 1..Len(sdpInfo.ice) :
               sdpInfo.ice[n].ufrag # Undefined /\ sdpInfo.ice[n].pwd # Undefined

(***************************************************************************)
(* SDPInfo.toString (src/lib/SDPInfo.js, 331-719).                          *)
(***************************************************************************)
\* Setup.toString: the attribute word of a setup enum member.
SetupToString(setup) ==
    CASE setup = "ACTPASS" -> "actpass" [] setup = "ACTIVE" -> "active"
      [] setup = "PASSIVE" -> "passive" [] OTHER -> "inactive"

\* Line 467: !"flex-fec" === codec.getCodec().toLowerCase(). The negation
\* binds to the string literal, so false is compared with a string.
NotFlexFec(codec) == FALSE

\* Lines 456-509: the rtp, rtcp-fb and fmtp entries of one codec.
CodecEntries(md, type, codec) ==
    LET pt == codec.type
        primary ==
            IF "video" = ToLowerCase(type)
            THEN [payload |-> pt, codec |-> codec.codec, rate |-> 90000, encoding |-> 0]
            ELSE IF "opus" = ToLowerCase(codec.codec)
            THEN [payload |-> pt, codec |-> codec.codec, rate |-> 48000, encoding |-> 2]
            ELSE [payload |-> pt, codec |-> codec.codec, rate |-> 8000, encoding |-> 0]
        feedback ==
            (IF "video" = ToLowerCase(type) /\ NotFlexFec(codec)
             THEN <<[payload |-> pt, type |-> "nack", subtype |-> "pli"],
                    [payload |-> pt, type |-> "goog-remb", subtype |-> ""]>>
             ELSE <<>>)
            \o <<[payload |-> pt, type |-> "transport-cc", subtype |-> ""]>>
    IN  IF HasRTX(codec)
        THEN [md EXCEPT
                 !.rtp = @ \o <<primary,
                                [payload |-> codec.rtx[1], codec |-> "rtx",
                                 rate |-> 90000, encoding |-> 0]>>,
                 !.rtcpFb = @ \o feedback,
                 !.fmtp = Append(@, [payload |-> codec.rtx[1],
                                     config |-> <<"a", "p", "t", "=">> \o NumToStr(pt)])]
        ELSE [md EXCEPT !.rtp = Append(@, primary), !.rtcpFb = @ \o feedback]

RECURSIVE CodecsPass(_, _, _, _)
\* Lines 454-510
CodecsPass(md, type, codecs, k) ==
    IF k > Len(codecs) THEN md
    ELSE CodecsPass(CodecEntries(md, type, codecs[k].val), type, codecs, k + 1)

\* Lines 379-611: the media description of one MediaInfo, before the ssrc
\* attributes are attached.
MediaDescription(info, media) ==
    CodecsPass(
        [type |-> media.type, mid |-> media.id,
         iceUfrag |-> info.ice[1].ufrag, icePwd |-> info.ice[1].pwd,
         fingerprint |-> <<[type |-> info.dtls[1].hash, hash |-> info.dtls[1].fingerprint]>>,
         setup |-> SetupToString(info.dtls[1].setup),
         candidates |-> info.candidates,
         rtp |-> <<>>, fmtp |-> <<>>, rtcpFb |-> <<>>,
         ssrcs |-> <<>>, msid |-> <<>>, ssrcGroups |-> <<>>],
        media.type, media.codecs, 1)

RECURSIVE GroupRecords(_, _)
\* Lines 636-646 and 674-684: the ssrc-group records of a track.
GroupRecords(groups, k) ==
    IF k > Len(groups) THEN <<>>
    ELSE <<[semantics |-> groups[k].semantics,
            ssrcs |-> Join([x \in 1..Len(groups[k].ssrcs) |-> NumToStr(groups[k].ssrcs[x])],
                           <<" ">>)]>>
         \o GroupRecords(groups, k + 1)

RECURSIVE CnameRecords(_, _, _)
\* Lines 652-660: one cname record per ssrc.
CnameRecords(ssrcs, streamId, k) ==
    IF k > Len(ssrcs) THEN <<>>
    ELSE <<[id |-> ssrcs[k], attribute |-> "cname", value |-> streamId]>>
         \o CnameRecords(ssrcs, streamId, k + 1)

RECURSIVE CnameMsidRecords(_, _, _, _)
\* Lines 690-703: a cname and an msid record per ssrc.
CnameMsidRecords(ssrcs, streamId, trackId, k) ==
    IF k > Len(ssrcs) THEN <<>>
    ELSE <<[id |-> ssrcs[k], attribute |-> "cname", value |-> streamId],
           [id |-> ssrcs[k], attribute |-> "msid", value |-> streamId \o <<" ">> \o trackId]>>
         \o CnameMsidRecords(ssrcs, streamId, trackId, k + 1)

\* Lines 630-665: the track bound to this media description by its mid.
AttachUnified(md, stream, track) ==
    [md EXCEPT !.ssrcGroups = @ \o GroupRecords(track.groups, 1),
               !.ssrcs = @ \o CnameRecords(track.ssrcs, stream.id, 1),
               !.msid = stream.id \o <<" ">> \o track.id]

\* Lines 668-706: the track without media id on a description of its type.
AttachPlanB(md, stream, track) ==
    [md EXCEPT !.ssrcGroups = @ \o GroupRecords(track.groups, 1),
               !.ssrcs = @ \o CnameMsidRecords(track.ssrcs, stream.id, track.id, 1)]

RECURSIVE AttachTrack(_, _, _, _)
\* Lines 621-707: the loop over the media descriptions for one track; both
\* branches leave the loop (break) after the first description they attach to.
AttachTrack(mds, stream, track, k) ==
    IF k > Len(mds) THEN mds
    ELSE IF track.mediaId # <<>>
    THEN IF track.mediaId = mds[k].mid
         THEN [mds EXCEPT ![k] = AttachUnified(@, stream, track)]
         ELSE AttachTrack(mds, stream, track, k + 1)
    ELSE IF ToLowerCase(mds[k].type) = ToLowerCase(track.media)
         THEN [mds EXCEPT ![k] = AttachPlanB(@, stream, track)]
         ELSE AttachTrack(mds, stream, track, k + 1)

RECURSIVE AttachTracks(_, _, _, _)
\* Lines 618-708
AttachTracks(mds, stream, tracks, k) ==
    IF k > Len(tracks) THEN mds
    ELSE AttachTracks(AttachTrack(mds, stream, tracks[k].val, 1), stream, tracks, k + 1)

RECURSIVE StreamsPass(_, _, _)
\* Lines 615-709
StreamsPass(mds, streams, k) ==
    IF k > Len(streams) THEN mds
    ELSE StreamsPass(AttachTracks(mds, streams[k].val, streams[k].val.tracks, 1),
                     streams, k + 1)

\* Lines 373-709: the media descriptions toString hands to the serializer.
ToStringMedia(info) ==
    StreamsPass([k \in 1..Len(info.medias) |-> MediaDescription(info, info.medias[k])],
                info.streams, 1)

\* Line 360 calls isLite() on the session ICE, lines 441-451 read the ICE
\* and the DTLS of the session for every media: a TypeError when the object
\* is null or has no such method.
ToStringThrows(info) ==
    \/ info.ice = <<>>
    \/ "isLite" \notin ICEInfoMethods
    \/ (info.medias # <<>> /\ info.dtls = <<>>)

(***************************************************************************)
(* SDPInfo.answer (300-326) and SDPInfo.clone (46-66).                      *)
(***************************************************************************)
\* MediaInfo.answer(supported): the media with the supported codecs only.
MediaAnswer(media, supported) ==
    [media EXCEPT !.codecs = SelectSeq(@, LAMBDA e : e.val.codec \in supported)]

RECURSIVE AnswerMedias(_, _, _, _)
\* Lines 315-323
AnswerMedias(answer, medias, capabilities, k) ==
    IF k > Len(medias) THEN answer
    ELSE AnswerMedias(AddMedia(answer, MediaAnswer(medias[k], capabilities[medias[k].type])),
                      medias, capabilities, k + 1)

\* Lines 302-325
Answer(info, p) ==
    LET created   == NewSDPInfo(0)
        withDtls  == IF p.ice # <<>> THEN SetDTLS(created, p.dtls) ELSE created
        withIce   == IF p.dtls # <<>> THEN SetICE(withDtls, p.ice) ELSE withDtls
        withCands == IF p.candidates # <<>> THEN AddCandidates(withIce, p.candidates)
                     ELSE withIce
    IN  AnswerMedias(withCands, info.medias, p.capabilities, 1)

\* Line 56 calls clone() on every stream, lines 62-63 on the session ICE
\* and DTLS: a TypeError when the object is null or has no such method.
CloneThrows(info) ==
    \/ (info.streams # <<>> /\ "clone" \notin StreamInfoMethods)
    \/ info.ice = <<>>
    \/ "clone" \notin ICEInfoMethods
    \/ info.dtls = <<>>
    \/ "clone" \notin DTLSInfoMethods

\* Lines 48-65, when nothing raises: the graph copied part by part.
Clone(info) ==
    SetDTLS(SetICE(AddCandidates([NewSDPInfo(info.version) EXCEPT
                                     !.medias = info.medias, !.streams = info.streams],
                                 info.candidates),
                   info.ice),
            info.dtls)

(***************************************************************************)
(* The SDPInfo built by its caller with the add/set operations, and the     *)
(* calls of toString, answer and clone on it. pc = "built" while the graph  *)
(* is being built, "called" after one of the three calls, whose outcome is  *)
(* in `out`.                                                                *)
(***************************************************************************)
RECURSIVE ProcessFrom(_, _, _)
\* Lines 739-1132 on a whole tree: the SDPInfo returned, or thrown.
ProcessFrom(info, tree, k) ==
    IF k > Len(tree.media) THEN [thrown |-> FALSE, info |-> info]
    ELSE IF MediaLineThrows(info, tree, tree.media[k]) THEN [thrown |-> TRUE, info |-> info]
    ELSE ProcessFrom(ProcessMediaLine(info, tree, tree.media[k]).info, tree, k + 1)

\* SDPInfo.process on the text written from the media descriptions mds
\* (sdp-transform's write and parse give back the attributes written).
Process(mds) ==
    LET tree == [version |-> 0, fingerprint |-> <<>>, media |-> mds]
    IN  ProcessFrom(SetVersion(NewSDPInfo(0), tree.version), tree, 1)

OpusCodec == NewCodecInfo("opus", 111, <<>>)

Vp8Codec == SetRTX(NewCodecInfo("VP8", 96, <<>>), 97)

FlexFecCodec == NewCodecInfo("Flex-Fec", 49, <<>>)

\* MediaInfo objects: an audio line, two video lines, a line without codecs.
MediaObjs ==
    {AddCodec(NewMediaInfo(<<"a">>, "audio"), OpusCodec),
     AddCodec(NewMediaInfo(<<"b">>, "video"), Vp8Codec),
     AddCodec(AddCodec(NewMediaInfo(<<"c">>, "video"), Vp8Codec), FlexFecCodec),
     NewMediaInfo(<<"d">>, "audio")}

Fid12 == [semantics |-> "FID", ssrcs |-> <<1, 2>>]

Fid67 == [semantics |-> "FID", ssrcs |-> <<6, 7>>]

\* StreamInfo objects: tracks with and without media id, ssrcs and groups.
StreamObjs ==
    {AddTrack(NewStreamInfo(<<"s">>),
              AddSourceGroup(AddSSRC(AddSSRC(NewTrackInfo("video", <<"t">>), 1), 2), Fid12)),
     AddTrack(NewStreamInfo(<<"s">>),
              SetMediaId(AddSSRC(NewTrackInfo("video", <<"t">>), 1), <<"c">>)),
     AddTrack(NewStreamInfo(<<"s">>), AddSSRC(NewTrackInfo("audio", <<"t">>), 3)),
     AddTrack(AddTrack(NewStreamInfo(<<"r">>), AddSSRC(NewTrackInfo("video", <<"t">>), 4)),
              SetMediaId(AddSSRC(NewTrackInfo("audio", <<"u">>), 5), <<"a">>)),
     AddTrack(NewStreamInfo(<<"r">>),
              SetMediaId(AddSourceGroup(AddSSRC(AddSSRC(NewTrackInfo("video", <<"u">>), 6), 7),
                                        Fid67), <<"b">>))}

Candidates == {"candidate1", "candidate2"}

RemoteICE == NewICEInfo("uf", "pw")

RemoteDTLS == NewDTLSInfo("ACTPASS", "sha-256", "F2:AA")

LocalICE == NewICEInfo("af46F", "a34FasdS")

LocalDTLS == NewDTLSInfo("PASSIVE", "sha-256", "0F:CE")

Capabilities == [audio |-> {"opus"}, video |-> {"VP8"}]

\* The parameters of answer: ICE, DTLS and candidates each given or not.
AnswerParams ==
    {[ice |-> c, dtls |-> d, candidates |-> a, capabilities |-> Capabilities] :
        c \in {<<>>, <<LocalICE>>}, d \in {<<>>, <<LocalDTLS>>},
        a \in {<<>>, <<"candidate1">>, <<"candidate2", "candidate1">>}}

\* new SDPInfo()
ApiInit ==
    /\ sdp = [version |-> 0, fingerprint |-> <<>>, media |-> <<>>]
    /\ i = 1
    /\ sdpInfo = NewSDPInfo(0)
    /\ sources = <<>>
    /\ pc = "built"
    /\ params = NoParams
    /\ out = NoOut

Build(info) ==
    /\ pc = "built"
    /\ sdpInfo' = info
    /\ UNCHANGED <<sdp, i, sources, pc, params, out>>

AddMediaCall ==
    \E media \in MediaObjs :
        /\ Len(sdpInfo.medias) < MaxMedias
        /\ \A k \in 1..Len(sdpInfo.medias) : sdpInfo.medias[k].id # media.id
        /\ Build(AddMedia(sdpInfo, media))

AddStreamCall ==
    \E stream \in StreamObjs :
        Build([sdpInfo EXCEPT !.streams = AddStream(@, stream)])

RemoveStreamCall ==
    \E x \in 1..Len(sdpInfo.streams) :
        Build([sdpInfo EXCEPT !.streams = RemoveStream(@, sdpInfo.streams[x].val)])

AddCandidateCall ==
    \E candidate \in Candidates :
        /\ Len(sdpInfo.candidates) < MaxCandidates
        /\ Build(AddCandidate(sdpInfo, candidate))

SetICECall == sdpInfo.ice = <<>> /\ Build(SetICE(sdpInfo, <<RemoteICE>>))

SetDTLSCall == sdpInfo.dtls = <<>> /\ Build(SetDTLS(sdpInfo, <<RemoteDTLS>>))

SetVersionCall == sdpInfo.version = 1 /\ Build(SetVersion(sdpInfo, 2))

Call(result) ==
    /\ pc = "built"
    /\ pc' = "called"
    /\ out' = result
    /\ UNCHANGED <<sdp, i, sdpInfo, sources>>

\* sdpInfo.toString()
ToStringCall ==
    /\ Call([op |-> "toString", thrown |-> ToStringThrows(sdpInfo), info |-> NewSDPInfo(0),
             media |-> IF ToStringThrows(sdpInfo) THEN <<>> ELSE ToStringMedia(sdpInfo)])
    /\ UNCHANGED params

\* sdpInfo.answer(params)
AnswerCall ==
    \E p \in AnswerParams :
        /\ params' = p
        /\ Call([op |-> "answer", thrown |-> FALSE, info |-> Answer(sdpInfo, p),
                 media |-> <<>>])

\* sdpInfo.clone()
CloneCall ==
    /\ Call([op |-> "clone", thrown |-> CloneThrows(sdpInfo),
             info |-> IF CloneThrows(sdpInfo) THEN NewSDPInfo(0) ELSE Clone(sdpInfo),
             media |-> <<>>])
    /\ UNCHANGED params

ApiNext ==
    \/ AddMediaCall \/ AddStreamCall \/ RemoveStreamCall \/ AddCandidateCall
    \/ SetICECall \/ SetDTLSCall \/ SetVersionCall
    \/ ToStringCall \/ AnswerCall \/ CloneCall

SpecApi == ApiInit /\ [][ApiNext]_vars

(***************************************************************************)
(* Properties of toString, answer and clone.                                *)
(***************************************************************************)
\* The session has the ICE and the DTLS info set.
TransportSet == sdpInfo.ice # <<>> /\ sdpInfo.dtls # <<>>

\* The tracks of a session, each with the id of its stream.
StreamTracks(info) ==
    UNION {{[streamId |-> info.streams[x].val.id, track |-> info.streams[x].val.tracks[y].val] :
               y \in 1..Len(info.streams[x].val.tracks)} : x \in 1..Len(info.streams)}

\* What the round trip compares of a session.
Shape(info) ==
    [medias |-> [k \in 1..Len(info.medias) |->
                    [type |-> info.medias[k].type, id |-> info.medias[k].id,
                     payloads |-> MapKeys(info.medias[k].codecs)]],
     tracks |-> {[streamId |-> st.streamId, trackId |-> st.track.id,
                  ssrcs |-> Range(st.track.ssrcs), groups |-> Range(st.track.groups)] :
                    st \in StreamTracks(info)}]

\* C1 as written: toString of a graph built with the add/set operations,
\* ICE and DTLS set, gives a text that process turns into a graph with the
\* same media types and ids, codec payload types, track ssrcs and groups.
C1_RoundTrip ==
    (out.op = "toString" /\ TransportSet) =>
        /\ ~out.thrown
        /\ ~Process(out.media).thrown
        /\ Shape(Process(out.media).info) = Shape(sdpInfo)

\* Media description md carries an ssrc record of the track.
Attached(md, st) ==
    \E x \in 1..Len(md.ssrcs) : md.ssrcs[x].id \in Range(st.track.ssrcs)

\* Media description md carries, for every ssrc of the track, the cname and
\* the msid record of plan B.
AttachedPlanB(md, st) ==
    \A ssrc \in Range(st.track.ssrcs) :
        /\ [id |-> ssrc, attribute |-> "cname", value |-> st.streamId] \in Range(md.ssrcs)
        /\ [id |-> ssrc, attribute |-> "msid",
            value |-> st.streamId \o <<" ">> \o st.track.id] \in Range(md.ssrcs)

\* C3 as written, on the media descriptions that lines 373-709 build: a track
\* with a media id has its ssrc records on exactly the description with that
\* mid; a track without one has its cname and msid records on every
\* description of its media type.
C3_Dispatch ==
    TransportSet =>
        LET mds == ToStringMedia(sdpInfo)
        IN  \A st \in StreamTracks(sdpInfo) : \A k \in 1..Len(mds) :
                IF st.track.mediaId # <<>>
                THEN Attached(mds[k], st) <=> mds[k].mid = st.track.mediaId
                ELSE /\ Attached(mds[k], st)
                        <=> ToLowerCase(mds[k].type) = ToLowerCase(st.track.media)
                     /\ Attached(mds[k], st) => AttachedPlanB(mds[k], st)

\* C7 as written: the answer carries params.ice and params.dtls whenever
\* each is given, params.candidates in order, and one media per offer media
\* in offer order.
C7_AnswerTransport ==
    out.op = "answer" =>
        /\ params.ice # <<>> => out.info.ice = params.ice
        /\ params.dtls # <<>> => out.info.dtls = params.dtls
        /\ out.info.candidates = params.candidates
        /\ Len(out.info.medias) = Len(sdpInfo.medias)
        /\ \A k \in 1..Len(sdpInfo.medias) :
               /\ out.info.medias[k].id = sdpInfo.medias[k].id
               /\ out.info.medias[k].type = sdpInfo.medias[k].type

\* C8 as written: clone of a session with ICE and DTLS set returns, without
\* error, a graph with the same version, medias, streams and candidates.
C8_CloneReturns ==
    (out.op = "clone" /\ TransportSet) =>
        /\ ~out.thrown
        /\ out.info.version = sdpInfo.version
        /\ out.info.medias = sdpInfo.medias
        /\ out.info.streams = sdpInfo.streams
        /\ out.info.candidates = sdpInfo.candidates

(***************************************************************************)
(* The getters called on the SDPInfo built with addMedia, and on a          *)
(* StreamInfo built with addTrack and removeAllTracks. The outcome of the   *)
(* call is in `out`: its argument and the value returned.                   *)
(***************************************************************************)
MaxTracks == 3

QueryOut(op, arg, result) ==
    [op |-> op, thrown |-> FALSE, info |-> NewSDPInfo(0), media |-> <<>>,
     arg |-> arg, result |-> result]

\* The ids asked for: ids of MediaObjs in both cases, and an id no media has.
QueryIds == {<<"a">>, <<"B">>, <<"c">>, <<"D">>, <<"e">>}

\* The media types asked for.
QueryTypes == {"audio", "video", "VIDEO"}

\* sdpInfo.getMediaById(id)
GetMediaByIdCall ==
    \E id \in QueryIds :
        /\ Call(QueryOut("getMediaById", id, GetMediaById(sdpInfo, id)))
        /\ UNCHANGED params

\* sdpInfo.getMedias(type)
GetMediasCall ==
    \E type \in QueryTypes :
        /\ Call(QueryOut("getMedias", type, CallGetMedias(sdpInfo, type)))
        /\ UNCHANGED params

QueryNext == AddMediaCall \/ GetMediaByIdCall \/ GetMediasCall

SpecQuery == ApiInit /\ [][QueryNext]_vars

\* TrackInfo objects handed to addTrack.
TrackObjs ==
    {NewTrackInfo(media, id) :
        media \in {"audio", "video", "Video"}, id \in {<<"t">>, <<"u">>, <<"v">>}}

\* new StreamInfo("s"), held by the session.
StreamInit ==
    /\ sdp = [version |-> 0, fingerprint |-> <<>>, media |-> <<>>]
    /\ i = 1
    /\ sdpInfo = [NewSDPInfo(0) EXCEPT !.streams = AddStream(@, NewStreamInfo(<<"s">>))]
    /\ sources = <<>>
    /\ pc = "built"
    /\ params = NoParams
    /\ out = NoOut

\* The StreamInfo under the calls.
TheStream == GetStream(sdpInfo.streams, <<"s">>)

\* stream.addTrack(track)
AddTrackCall ==
    \E track \in TrackObjs :
        /\ HasTrack(TheStream, track.id) \/ Len(TheStream.tracks) < MaxTracks
        /\ Build([sdpInfo EXCEPT !.streams = AddStream(@, AddTrack(TheStream, track))])

\* stream.removeAllTracks()
RemoveAllTracksCall ==
    /\ TheStream.tracks # <<>>
    /\ Build([sdpInfo EXCEPT !.streams = AddStream(@, RemoveAllTracks(TheStream))])

\* stream.getFirstTrack(media)
GetFirstTrackCall ==
    \E media \in QueryTypes :
        /\ Call(QueryOut("getFirstTrack", media, GetFirstTrack(TheStream, media)))
        /\ UNCHANGED params

StreamNext == AddTrackCall \/ RemoveAllTracksCall \/ GetFirstTrackCall

SpecStream == StreamInit /\ [][StreamNext]_vars

(***************************************************************************)
(* Properties of the getters.                                               *)
(***************************************************************************)
\* C11 as written: getMediaById(id) returns the MediaInfo of the media list
\* whose id equals id without regard to case, and null when no media has
\* that id.
C11_GetMediaById ==
    out.op = "getMediaById" =>
        LET hits == {k \in 1..Len(sdpInfo.medias) :
                        IdToLowerCase(sdpInfo.medias[k].id) = IdToLowerCase(out.arg)}
        IN  IF hits = {} THEN out.result = JsNull
            ELSE \E k \in hits : out.result = JsObject(sdpInfo.medias[k])

\* The medias of the list of one type, in list order.
OfType(medias, type) ==
    SelectSeq(medias, LAMBDA m : ToLowerCase(m.type) = ToLowerCase(type))

\* C12 as written: getMedias(type) returns exactly the media descriptions
\* of the list whose type equals type without regard to case, in list order.
C12_GetMediasByType ==
    out.op = "getMedias" =>
        out.result = JsArray(OfType(sdpInfo.medias, out.arg))

\* C13 as written: getFirstTrack(media) returns the first track in insertion
\* order whose media type equals media without regard to case, and null when
\* the stream has no track of that type.
C13_GetFirstTrack ==
    out.op = "getFirstTrack" =>
        LET tracks == TheStream.tracks
            hits == {k \in 1..Len(tracks) :
                        ToLowerCase(tracks[k].val.media) = ToLowerCase(out.arg)}
        IN  IF hits = {} THEN out.result = JsNull
            ELSE \E k \in hits :
                    /\ \A j \in hits : k <= j
                    /\ out.result = JsObject(tracks[k].val)

(***************************************************************************)
(* Properties of the codec entries of toString.                             *)
(***************************************************************************)
\* The rtcp-fb entries of a payload type that toString writes as nack pli
\* and as goog-remb.
NackPli(pt) == [payload |-> pt, type |-> "nack", subtype |-> "pli"]

GoogRemb(pt) == [payload |-> pt, type |-> "goog-remb", subtype |-> ""]

\* The media description has an rtp entry of the codec with rate 90000.
HasVideoRtp(md, codec) ==
    \E x \in 1..Len(md.rtp) :
        /\ md.rtp[x].payload = codec.type
        /\ md.rtp[x].codec = codec.codec
        /\ md.rtp[x].rate = 90000

\* C14 as written, on the media descriptions that lines 373-709 build: every
\* codec of a video media line other than flex-FEC has an rtp entry of rate
\* 90000 and both a nack pli and a goog-remb entry for its payload type; the
\* flex-FEC codec has neither of the two feedback entries.
C14_VideoFeedback ==
    TransportSet =>
        LET mds == ToStringMedia(sdpInfo)
        IN  \A k \in 1..Len(sdpInfo.medias) :
                ToLowerCase(sdpInfo.medias[k].type) = "video" =>
                    \A c \in Range(MapValues(sdpInfo.medias[k].codecs)) :
                        IF ToLowerCase(c.codec) # "flex-fec"
                        THEN /\ HasVideoRtp(mds[k], c)
                             /\ NackPli(c.type) \in Range(mds[k].rtcpFb)
                             /\ GoogRemb(c.type) \in Range(mds[k].rtcpFb)
                        ELSE /\ NackPli(c.type) \notin Range(mds[k].rtcpFb)
                             /\ GoogRemb(c.type) \notin Range(mds[k].rtcpFb)

(***************************************************************************)
(* Properties of the media-level msid of process.                           *)
(***************************************************************************)
\* The ssrc list of track tid of stream sid, <<>> when there is no such track.
SsrcsOf(streams, sid, tid) ==
    IF MapHas(streams, sid) /\ MapHas(MapGet(streams, sid).tracks, tid)
    THEN MapGet(MapGet(streams, sid).tracks, tid).ssrcs
    ELSE <<>>

\* The ssrcs that the ssrc records of a media line name.
LineSsrcs(md) == {md.ssrcs[k].id : k \in 1..Len(md.ssrcs)}

\* The <<stream id, track id>> pairs that the msid records of one ssrc name.
MsidsOf(md, ssrc) ==
    {<<Piece(Split(md.ssrcs[k].value, " "), 1), Piece(Split(md.ssrcs[k].value, " "), 2)>> :
        k \in {x \in 1..Len(md.ssrcs) :
                  md.ssrcs[x].id = ssrc /\ md.ssrcs[x].attribute \in MsidNames}}

\* The media line processed by this step carries a media-level msid.
MediaMsidStep == ProcessMedia /\ sdp.media[i].msid # <<>>

\* C15 as written: after a media line with mid X and media-level msid "S T"
\* is processed, track T of stream S exists with mediaId X, whether this step
\* created it or it was there before; every ssrc of the line without a
\* per-ssrc msid is in T's ssrc list, and no ssrc that a per-ssrc msid gives
\* to another track is added to T.
C15_MediaLevelMsid ==
    [][MediaMsidStep =>
         LET md  == sdp.media[i]
             sid == Piece(Split(md.msid, " "), 1)
             tid == Piece(Split(md.msid, " "), 2)
             before == SsrcsOf(sdpInfo.streams, sid, tid)
             after  == SsrcsOf(sdpInfo'.streams, sid, tid)
             added  == SubSeq(after, Len(before) + 1, Len(after))
         IN  /\ <<sid, tid>> \in TracksOf(sdpInfo')
             /\ GetTrack(GetStream(sdpInfo'.streams, sid), tid).mediaId = md.mid
             /\ \A ssrc \in LineSsrcs(md) :
                    /\ MsidsOf(md, ssrc) = {} => ssrc \in Range(after)
                    /\ (MsidsOf(md, ssrc) # {} /\ <<sid, tid>> \notin MsidsOf(md, ssrc))
                           => ssrc \notin Range(added)]_vars

(***************************************************************************)
(* toString on the SDPInfo that process returns and on the one its caller   *)
(* built.                                                                   *)
(***************************************************************************)
\* C16 as written: toString reaches its end, without an error raised while
\* it reads the session ICE or DTLS, on every SDPInfo that process returns
\* for an input with at least one media line, and on every SDPInfo whose ICE
\* and DTLS its caller set.
C16_ToStringCompletes ==
    /\ (pc = "returned" /\ sdp.media # <<>>) => ~ToStringThrows(sdpInfo)
    /\ (out.op = "toString" /\ TransportSet) => ~out.thrown

====
